---- MODULE Spec2Model ----
(***************************************************************************)
(* Model of adhoc_runxp.py: a wrapper that checks its argument count,      *)
(* builds and prints a selscan --xpehh command line and runs the selscan   *)
(* binary with subprocess.check_output.                                    *)
(*                                                                         *)
(* Python strings are TLA+ strings (concatenation is \o, indexing is       *)
(* SubSeq); sys.argv is a sequence of strings whose first element is the   *)
(* script name.  One action per statement of main(); the child process and *)
(* the interpreter's exit path (uncaught exception / SystemExit / normal   *)
(* end of script) are explicit.                                            *)
(***************************************************************************)
EXTENDS Integers, Sequences, FiniteSets, TLC

VARIABLES
    argv,          \* sys.argv
    binary,        \* state of the file at basecmd: "ok", "missing", "noexec"
    pc,            \* position of the interpreter in the script
    in_tped1, out_popihh1, in_tped2, out_popihh2,   \* locals of main()
    full_cmd,      \* local of main()
    stdout,        \* text written by the invoker to sys.stdout
    stderr,        \* records written to the shared standard error stream
    captured,      \* child's standard output, captured by check_output
    child,         \* "none", "running", "exited"
    child_argv,    \* argument vector the child was launched with
    returncode,    \* child's return code once exited
    launches,      \* number of launch attempts (Popen calls)
    spawned,       \* number of child processes actually created
    exc,           \* exception propagating out of main(), "None" if none
    exit_status    \* exit status of the invoker, meaningful when pc = "done"

vars == <<argv, binary, pc, in_tped1, out_popihh1, in_tped2, out_popihh2,
          full_cmd, stdout, stderr, captured, child, child_argv, returncode,
          launches, spawned, exc, exit_status>>

locals == <<in_tped1, out_popihh1, in_tped2, out_popihh2, full_cmd>>
childvars == <<child, child_argv, returncode, launches, spawned, captured>>

----------------------------------------------------------------------------
(* Bounds *)

MaxArgs == 5          \* positional arguments range over 0 .. MaxArgs
MaxChildEmit == 2     \* chunks of output the child writes before exiting

(* Inputs *)

Paths == {"tped_pop1.txt", "out1", "tped_pop2.txt", "out2"}
ReturnCodes == {0, 1, 3, 255, -9}     \* -9: child killed by a signal
BinaryStates == {"ok", "missing", "noexec"}
script == "adhoc_runxp.py"

----------------------------------------------------------------------------
(* Program constants and pure helpers *)

basecmd == "/app/bin/linux/selscan"

usage_msg == "call program as: python adhoc_runxp.py {in_tped1} {out1} {in_tped2} {out2}"

Whitespace == {" ", "\t", "\n", "\r", "\f"}

RECURSIVE SplitFrom(_, _, _, _)
SplitFrom(s, i, cur, acc) ==
    IF i > Len(s)
    THEN IF cur = "" THEN acc ELSE Append(acc, cur)
    ELSE LET c == SubSeq(s, i, i) IN
         IF c \in Whitespace
         THEN SplitFrom(s, i + 1, "", IF cur = "" THEN acc ELSE Append(acc, cur))
         ELSE SplitFrom(s, i + 1, cur \o c, acc)

\* str.split() with no separator: split on runs of whitespace
split(s) == SplitFrom(s, 1, "", <<>>)

\* print(x): str(x) followed by the line terminator
print(out, x) == out \o x \o "\n"

\* sys.argv[1:]
Positional(av) == SubSeq(av, 2, Len(av))

\* variant: output path 1 and reference input exchanged
BuildFullCmd_Swapped(a1, a2, a3, a4) ==
    basecmd \o " --xpehh --tped " \o a1 \o " --out " \o a3
            \o " --tped-ref " \o a2 \o " --out2 " \o a4
            \o " --maf 0.05 --gap-scale 20000 --threads 15 "

\* line 14: the string concatenation that builds full_cmd
BuildFullCmd(a1, a2, a3, a4) ==
    basecmd \o " --xpehh --tped " \o a1 \o " --out " \o a2
            \o " --tped-ref " \o a3 \o " --out2 " \o a4
            \o " --maf 0.05 --gap-scale 20000 --threads 15 "

\* line 16: the argument vector handed to subprocess.check_output
LaunchArgs(cmd) == split(basecmd)

\* variant: a failing child is not treated as a failure of the invoker
StatusOf_ChildIgnored(e) ==
    IF e \in {"None", "SystemExit", "CalledProcessError"} THEN 0 ELSE 1

\* exit status of the interpreter: SystemExit() with no code and a normal
\* end of script give 0, any other uncaught exception gives 1
StatusOf(e) == IF e \in {"None", "SystemExit"} THEN 0 ELSE 1

\* variant: the exception is swallowed silently
Traceback_Silent(e) == <<>>

\* what the interpreter writes to stderr for an exception leaving main()
Traceback(e) ==
    IF e \in {"None", "SystemExit"} THEN <<>>
    ELSE << [by |-> "invoker", text |-> "Traceback: " \o e] >>

----------------------------------------------------------------------------
(* Initial states: any argument vector of 0 .. MaxArgs positionals *)

RECURSIVE SeqsOfLen(_, _)
SeqsOfLen(S, n) ==
    IF n = 0 THEN {<<>>}
    ELSE {Append(q, x) : q \in SeqsOfLen(S, n - 1), x \in S}

Init ==
    /\ \E n \in 0 .. MaxArgs : \E a \in SeqsOfLen(Paths, n) : argv = <<script>> \o a
    /\ binary \in BinaryStates
    /\ pc = "check"
    /\ in_tped1 = "" /\ out_popihh1 = "" /\ in_tped2 = "" /\ out_popihh2 = ""
    /\ full_cmd = ""
    /\ stdout = ""
    /\ stderr = <<>>
    /\ captured = <<>>
    /\ child = "none"
    /\ child_argv = <<>>
    /\ returncode = 0
    /\ launches = 0
    /\ spawned = 0
    /\ exc = "None"
    /\ exit_status = 0

----------------------------------------------------------------------------
(* main() *)

\* variant: the test is len(sys.argv) < 5
CheckArgs_Lt ==
    /\ pc = "check"
    /\ pc' = IF Len(argv) < 5 THEN "usage" ELSE "unpack"
    /\ UNCHANGED <<argv, binary, locals, stdout, stderr, childvars, exc, exit_status>>

\* line 10: if len(sys.argv) != 5
CheckArgs ==
    /\ pc = "check"
    /\ pc' = IF Len(argv) # 5 THEN "usage" ELSE "unpack"
    /\ UNCHANGED <<argv, binary, locals, stdout, stderr, childvars, exc, exit_status>>

\* line 11: print('call program as: ...')
PrintUsage ==
    /\ pc = "usage"
    /\ stdout' = print(stdout, usage_msg)
    /\ pc' = "exit"
    /\ UNCHANGED <<argv, binary, locals, stderr, childvars, exc, exit_status>>

\* line 12: sys.exit() raises SystemExit with no code
SysExit ==
    /\ pc = "exit"
    /\ exc' = "SystemExit"
    /\ pc' = "unwind"
    /\ UNCHANGED <<argv, binary, locals, stdout, stderr, childvars, exit_status>>

\* line 13: in_tped1, out_popihh1, in_tped2, out_popihh2 = sys.argv[1:]
Unpack ==
    /\ pc = "unpack"
    /\ LET rest == Positional(argv) IN
       IF Len(rest) = 4
       THEN /\ in_tped1' = rest[1]
            /\ out_popihh1' = rest[2]
            /\ in_tped2' = rest[3]
            /\ out_popihh2' = rest[4]
            /\ pc' = "build"
            /\ UNCHANGED exc
       ELSE /\ exc' = "ValueError"
            /\ pc' = "unwind"
            /\ UNCHANGED <<in_tped1, out_popihh1, in_tped2, out_popihh2>>
    /\ UNCHANGED <<argv, binary, full_cmd, stdout, stderr, childvars, exit_status>>

\* line 14: full_cmd = basecmd + " --xpehh --tped " + ...
BuildCmd ==
    /\ pc = "build"
    /\ full_cmd' = BuildFullCmd(in_tped1, out_popihh1, in_tped2, out_popihh2)
    /\ pc' = "print"
    /\ UNCHANGED <<argv, binary, in_tped1, out_popihh1, in_tped2, out_popihh2,
                   stdout, stderr, childvars, exc, exit_status>>

\* variant: the print statement is missing
PrintCmd_Skip ==
    /\ pc = "print"
    /\ pc' = "launch"
    /\ UNCHANGED <<argv, binary, locals, stdout, stderr, childvars, exc, exit_status>>

\* line 15: print(full_cmd)
PrintCmd ==
    /\ pc = "print"
    /\ stdout' = print(stdout, full_cmd)
    /\ pc' = "launch"
    /\ UNCHANGED <<argv, binary, locals, stderr, childvars, exc, exit_status>>

\* variant: a failed launch is attempted again
Launch_Retry ==
    /\ pc = "launch"
    /\ launches < 2
    /\ launches' = launches + 1
    /\ IF binary = "ok"
       THEN /\ child' = "running"
            /\ child_argv' = split(basecmd)
            /\ spawned' = spawned + 1
            /\ pc' = "wait"
            /\ UNCHANGED exc
       ELSE /\ exc' = IF launches = 0 THEN exc
                      ELSE IF binary = "missing" THEN "FileNotFoundError"
                                                 ELSE "PermissionError"
            /\ pc' = IF launches = 0 THEN "launch" ELSE "unwind"
            /\ UNCHANGED <<child, child_argv, spawned>>
    /\ UNCHANGED <<argv, binary, locals, stdout, stderr, captured, returncode,
                   exit_status>>

\* line 16, first half: check_output creates the child (Popen).  A missing
\* binary raises FileNotFoundError, a non-executable one PermissionError;
\* neither is caught.
Launch ==
    /\ pc = "launch"
    /\ launches' = launches + 1
    /\ IF binary = "ok"
       THEN /\ child' = "running"
            /\ child_argv' = LaunchArgs(full_cmd)
            /\ spawned' = spawned + 1
            /\ pc' = "wait"
            /\ UNCHANGED exc
       ELSE /\ exc' = IF binary = "missing" THEN "FileNotFoundError"
                                            ELSE "PermissionError"
            /\ pc' = "unwind"
            /\ UNCHANGED <<child, child_argv, spawned>>
    /\ UNCHANGED <<argv, binary, locals, stdout, stderr, captured, returncode,
                   exit_status>>

\* variant: subprocess.call semantics, the return code is not checked
Wait_NoCheck ==
    /\ pc = "wait"
    /\ child = "exited"
    /\ pc' = "end"
    /\ UNCHANGED <<argv, binary, locals, stdout, stderr, childvars, exc, exit_status>>

\* variant: Popen without waiting for the child
Wait_NoBlock ==
    /\ pc = "wait"
    /\ pc' = "end"
    /\ UNCHANGED <<argv, binary, locals, stdout, stderr, childvars, exc, exit_status>>

\* line 16, second half: check_output blocks until the child has exited,
\* then returns its output or raises CalledProcessError on a non-zero code.
\* The returned output is discarded; main() then returns (line 18).
Wait ==
    /\ pc = "wait"
    /\ child = "exited"
    /\ IF returncode # 0
       THEN exc' = "CalledProcessError" /\ pc' = "unwind"
       ELSE exc' = exc /\ pc' = "end"
    /\ UNCHANGED <<argv, binary, locals, stdout, stderr, childvars, exit_status>>

\* interpreter exit: after main() returned, or with an exception that left
\* main() uncaught
Terminate ==
    /\ pc \in {"unwind", "end"}
    /\ stderr' = stderr \o Traceback(exc)
    /\ exit_status' = StatusOf(exc)
    /\ pc' = "done"
    /\ UNCHANGED <<argv, binary, locals, stdout, childvars, exc>>

----------------------------------------------------------------------------
(* The child process (opaque): it may write and it may exit *)

\* the child's stdout is the pipe check_output reads; its stderr is inherited
ChildEmit ==
    /\ child = "running"
    /\ Len(captured) + Cardinality({i \in DOMAIN stderr : stderr[i].by = "child"})
          < MaxChildEmit
    /\ \/ /\ captured' = Append(captured, "out")
          /\ UNCHANGED stderr
       \/ /\ stderr' = Append(stderr, [by |-> "child", text |-> "err"])
          /\ UNCHANGED captured
    /\ UNCHANGED <<argv, binary, pc, locals, stdout, child, child_argv,
                   returncode, launches, spawned, exc, exit_status>>

ChildExit ==
    /\ child = "running"
    /\ \E rc \in ReturnCodes : returncode' = rc
    /\ child' = "exited"
    /\ UNCHANGED <<argv, binary, pc, locals, stdout, stderr, captured,
                   child_argv, launches, spawned, exc, exit_status>>

----------------------------------------------------------------------------

Next ==
    \/ CheckArgs
    \/ PrintUsage
    \/ SysExit
    \/ Unpack
    \/ BuildCmd
    \/ PrintCmd
    \/ Launch
    \/ Wait
    \/ Terminate
    \/ ChildEmit
    \/ ChildExit

Spec == Init /\ [][Next]_vars

\* the interpreter keeps executing the script; nothing is assumed of the child
InvokerStep ==
    \/ CheckArgs \/ PrintUsage \/ SysExit \/ Unpack \/ BuildCmd
    \/ PrintCmd \/ Launch \/ Wait \/ Terminate

FairSpec == Spec /\ WF_vars(InvokerStep)

----------------------------------------------------------------------------
(* Vocabulary of the properties *)

ArgCount == Len(argv) - 1

\* positions after line 15 has executed
AfterPrint == {"launch", "wait", "end", "unwind", "done"}

RECURSIVE Join(_, _)
Join(tokens, sep) ==
    IF tokens = <<>> THEN ""
    ELSE IF Len(tokens) = 1 THEN tokens[1]
    ELSE tokens[1] \o sep \o Join(Tail(tokens), sep)

\* the documented selscan command line, token by token
TemplateTokens(a1, a2, a3, a4) ==
    <<basecmd, "--xpehh", "--tped", a1, "--out", a2, "--tped-ref", a3,
      "--out2", a4, "--maf", "0.05", "--gap-scale", "20000", "--threads", "15">>

ExpectedTokens == TemplateTokens(argv[2], argv[3], argv[4], argv[5])
ExpectedCmd == Join(ExpectedTokens, " ")

CmdPrinted == full_cmd # "" /\ stdout = full_cmd \o "\n"
UsagePrinted == stdout = usage_msg \o "\n"

InvokerErr == SelectSeq(stderr, LAMBDA r : r.by = "invoker")

ChildFailed == child = "exited" /\ returncode # 0
LaunchFailed == launches > 0 /\ spawned = 0

----------------------------------------------------------------------------
(* C1 *)

\* C1: with exactly four positional arguments, the argument vector the child
\* process is launched with is the constructed token list: the binary path,
\* --xpehh, --tped a1, --out a2, --tped-ref a3, --out2 a4, --maf 0.05,
\* --gap-scale 20000, --threads 15, in that order.
C1_ChildArgvIsCommand ==
    (ArgCount = 4 /\ spawned > 0) => child_argv = ExpectedTokens

(* C2 *)

C2_Safe ==
    ArgCount # 4 =>
        /\ spawned = 0 /\ launches = 0 /\ child = "none"
        /\ stdout \in {"", usage_msg \o "\n"}
        /\ full_cmd = ""
        /\ pc \in {"exit", "unwind", "done"} => UsagePrinted

\* C2: for every number of positional arguments other than four, main prints
\* the usage message and terminates; in every state of such a run no child
\* process has been launched or spawned and the command string has not been
\* printed.
C2_UsageAndNoSpawn ==
    /\ []C2_Safe
    /\ (ArgCount # 4) ~> (pc = "done" /\ UsagePrinted)

C2_Witness == ArgCount # 4 /\ pc = "done" /\ UsagePrinted /\ spawned = 0

(* C3 *)

\* C3: when the number of positional arguments is not four, the invoker's
\* exit status is non-zero.
C3_UsageExitNonZero ==
    (pc = "done" /\ ArgCount # 4) => exit_status # 0

(* C4 *)

\* C4 as stated: the command written to standard output is exactly the
\* template with the four arguments substituted, with no extra leading or
\* trailing characters (the line terminator of print aside).
C4_PrintedExact ==
    (ArgCount = 4 /\ pc \in AfterPrint) => stdout = ExpectedCmd \o "\n"

\* C4: for any four arguments, the line written to standard output is the
\* template '<binary-path> --xpehh --tped a1 --out a2 --tped-ref a3 --out2 a4
\* --maf 0.05 --gap-scale 20000 --threads 15' with the arguments substituted
\* positionally, followed by exactly one trailing space and the newline.
C4_PrintedWithTrailingSpace ==
    (ArgCount = 4 /\ pc \in AfterPrint) => stdout = ExpectedCmd \o " " \o "\n"

C4_Witness ==
    /\ Positional(argv) = <<"tped_pop1.txt", "out1", "tped_pop2.txt", "out2">>
    /\ pc = "launch"
    /\ stdout = "/app/bin/linux/selscan --xpehh --tped tped_pop1.txt --out out1 --tped-ref tped_pop2.txt --out2 out2 --maf 0.05 --gap-scale 20000 --threads 15 \n"

(* C5 *)

\* C5 as stated: the invoker's exit status equals the child's exit status s,
\* for every s.
C5_StatusPropagated ==
    (pc = "done" /\ ArgCount = 4 /\ child = "exited") => exit_status = returncode

\* C5: when the child was launched and terminated with status s, the
\* invoker's exit status is 0 if s = 0 and 1 for every other s.
C5_StatusCollapsed ==
    (pc = "done" /\ ArgCount = 4 /\ child = "exited") =>
        exit_status = (IF returncode = 0 THEN 0 ELSE 1)

C5_Witness ==
    pc = "done" /\ ArgCount = 4 /\ child = "exited" /\ returncode = 3
    /\ exit_status = 1

(* C6 *)

\* C6: with four arguments, the invoker's exit status is 0 if and only if
\* the child process exited with status 0.
C6_ZeroIffChildZero ==
    (pc = "done" /\ ArgCount = 4) =>
        (exit_status = 0 <=> (child = "exited" /\ returncode = 0))

C6_Witness ==
    pc = "done" /\ ArgCount = 4 /\ child = "exited" /\ returncode = 0
    /\ exit_status = 0

(* C7 *)

\* C7: with four arguments and a binary that is missing or not executable,
\* the launch fails, the invoker terminates with a non-zero status, and the
\* launch was attempted exactly once; on no run are there two attempts.
C7_LaunchFailureNoRetry ==
    /\ launches <= 1
    /\ (ArgCount = 4 /\ binary # "ok" /\ pc = "done") =>
          /\ launches = 1 /\ spawned = 0 /\ child = "none"
          /\ exit_status # 0

C7_Witness ==
    ArgCount = 4 /\ binary = "missing" /\ pc = "done" /\ launches = 1
    /\ exc = "FileNotFoundError"

(* C8 *)

C8_Safe ==
    ArgCount = 4 => ((launches > 0 \/ pc = "done") => CmdPrinted)

\* C8: on a four-argument run the command is written to standard output
\* before the launch is attempted: every launch attempt starts in a state
\* where the command is already printed, and no state has a launch attempt
\* (successful or failed) without the printed command.
C8_PrintBeforeLaunch ==
    /\ []C8_Safe
    /\ [][launches' # launches => CmdPrinted]_vars

C8_Witness ==
    ArgCount = 4 /\ binary = "noexec" /\ launches = 1 /\ spawned = 0
    /\ CmdPrinted

(* C9 *)

\* C9: at most one child is spawned per run; while the child is running the
\* invoker is blocked in check_output, so it is terminated only when the
\* child has terminated or was never launched.
C9_OneChildAndWait ==
    /\ spawned <= 1
    /\ child = "running" => pc = "wait"
    /\ pc = "done" => child \in {"none", "exited"}

C9_Witness ==
    pc = "done" /\ spawned = 1 /\ child = "exited" /\ Len(captured) > 0

(* C10 *)

\* C10 as stated: when the launch fails or the child exits with a failure
\* status, the invoker writes nothing but the printed command line.
C10_NoInvokerReport ==
    (ArgCount = 4 /\ pc = "done" /\ (LaunchFailed \/ ChildFailed)) =>
        (CmdPrinted /\ InvokerErr = <<>>)

\* C10: on a four-argument run the invoker writes only the command line to
\* standard output, and writes to standard error exactly one
\* uncaught-exception traceback when it terminates after a failed launch or
\* a failing child, and nothing otherwise.
C10_OnlyTracebackOnFailure ==
    ArgCount = 4 =>
        /\ stdout \in {"", full_cmd \o "\n"}
        /\ InvokerErr =
              (IF pc = "done" /\ (LaunchFailed \/ ChildFailed)
               THEN << [by |-> "invoker", text |-> "Traceback: " \o exc] >>
               ELSE <<>>)

C10_Witness ==
    /\ ArgCount = 4 /\ pc = "done" /\ ChildFailed /\ CmdPrinted
    /\ InvokerErr = << [by |-> "invoker", text |-> "Traceback: CalledProcessError"] >>

====
